---- MODULE Spec2Model ----
(***************************************************************************)
(* A model of the command-line chat client of src/example.py and of the    *)
(* seven tool functions of src/tools/.                                     *)
(*                                                                         *)
(* Conventions.                                                            *)
(*  - A Python Optional[T] value is a sequence of length at most one:      *)
(*    None is << >> and a present value x is << x >>.                      *)
(*  - A Python str that the code parses or case-folds (a date, a line of   *)
(*    input) is a sequence of one-character strings; a str the code only   *)
(*    compares or forwards is a TLA+ string.                               *)
(*  - A Python list is a sequence.                                         *)
(*  - input() delivers a line and a run of the agent runtime ends: end of  *)
(*    input and an exception raised by the runtime are not modelled.       *)
(***************************************************************************)
EXTENDS Integers, Sequences, FiniteSets, TLC

VARIABLES
    environ,         \* os.environ after load_dotenv(): variable name -> Optional[str]
    today,           \* the value date.today() returns
    inv,             \* tool invocations in progress: slot -> frame of the call
    pc,              \* position of src/example.py: startup, config_error, prompt, streaming, exited
    config,          \* BASE_URL, API_KEY, MODEL_NAME as bound at module import
    conversation,    \* chat_with_agent's list `conversation`
    user_input,      \* chat_with_agent's `user_input`, the line read last
    run_input,       \* the input handed to Runner.run_streamed for the current turn
    final_items,     \* chat_with_agent's list `final_items`
    message_output,  \* chat_with_agent's `message_output`
    turn,            \* number of agent runs started so far
    nevents,         \* number of stream events consumed so far
    event,           \* chat_with_agent's `event`: the type of the event consumed last
    nreads,          \* number of lines read by input()
    arrived,         \* history: user messages and recordable run items in arrival order
    environ0,        \* history: os.environ as it was when the module was imported
    nenv,            \* number of changes of the environment after startup
    ncalls,          \* number of tool invocations started so far
    debug,           \* chat_with_agent's parameter `debug`: args.debug of the command line
    printed          \* the lines the last step of src/example.py wrote to the terminal

vars == << environ, today, inv, pc, config, conversation, user_input, run_input, final_items,
           message_output, turn, nevents, event, nreads, arrived, environ0, nenv, ncalls,
           debug, printed >>

toolVars == << environ, today, inv, nenv, ncalls >>
chatVars == << pc, config, conversation, user_input, run_input, final_items, message_output,
               turn, nevents, event, nreads, arrived, environ0, debug, printed >>

(***************************************************************************)
(* Bounds of the model.                                                    *)
(***************************************************************************)
MaxTurns == 2
MaxEvents == 3
MaxEnvChanges == 1
MaxCalls == 2

(***************************************************************************)
(* Python values.                                                          *)
(***************************************************************************)
None == << >>
Some(x) == << x >>
IsNone(o) == o = << >>

\* bool(o) of an Optional[str] whose present value is a TLA+ string
TruthyStr(o) == o # << >> /\ o[1] # ""

\* bool(o) of an Optional[str] whose present value is a character sequence
TruthyChars(o) == o # << >> /\ o[1] # << >>

Min(a, b) == IF a <= b THEN a ELSE b
Max(a, b) == IF a >= b THEN a ELSE b

\* xs[:k]
SlicePrefix(xs, k) ==
    IF k >= 0 THEN SubSeq(xs, 1, Min(k, Len(xs)))
    ELSE SubSeq(xs, 1, Max(Len(xs) + k, 0))

\* list(range(1, n + 1)): the n entries of a response list, named by position
Items(n) == [i \in 1..n |-> i]

(***************************************************************************)
(* datetime.strptime(s, "%Y-%m-%d").date()                                 *)
(***************************************************************************)
Digits == {"0", "1", "2", "3", "4", "5", "6", "7", "8", "9"}

DigitVal(c) ==
    CASE c = "0" -> 0 [] c = "1" -> 1 [] c = "2" -> 2 [] c = "3" -> 3 [] c = "4" -> 4
      [] c = "5" -> 5 [] c = "6" -> 6 [] c = "7" -> 7 [] c = "8" -> 8 [] c = "9" -> 9

At(s, i) == IF i >= 1 /\ i <= Len(s) THEN s[i] ELSE "<eos>"

IsLeap(y) == (y % 4 = 0 /\ y % 100 # 0) \/ y % 400 = 0

DaysInMonth(y, m) ==
    IF m = 2 THEN (IF IsLeap(y) THEN 29 ELSE 28)
    ELSE IF m \in {4, 6, 9, 11} THEN 30 ELSE 31

\* Number of characters the directive %m consumes at position i, 0 when it does
\* not match: the alternatives 1[0-2] | 0[1-9] | [1-9], tried in this order.
MonthWidth(s, i) ==
    IF At(s, i) = "1" /\ At(s, i + 1) \in {"0", "1", "2"} THEN 2
    ELSE IF At(s, i) = "0" /\ At(s, i + 1) \in Digits \ {"0"} THEN 2
    ELSE IF At(s, i) \in Digits \ {"0"} THEN 1
    ELSE 0

\* The same for %d: 3[01] | [12]\d | 0[1-9] | [1-9] | " "[1-9].
DayWidth(s, i) ==
    IF At(s, i) = "3" /\ At(s, i + 1) \in {"0", "1"} THEN 2
    ELSE IF At(s, i) \in {"1", "2"} /\ At(s, i + 1) \in Digits THEN 2
    ELSE IF At(s, i) = "0" /\ At(s, i + 1) \in Digits \ {"0"} THEN 2
    ELSE IF At(s, i) \in Digits \ {"0"} THEN 1
    ELSE IF At(s, i) = " " /\ At(s, i + 1) \in Digits \ {"0"} THEN 2
    ELSE 0

\* int() of the digits of s[i .. i+w-1], a leading space skipped
IntOf(s, i, w) ==
    IF w = 1 THEN DigitVal(s[i])
    ELSE IF s[i] = " " THEN DigitVal(s[i + 1])
    ELSE 10 * DigitVal(s[i]) + DigitVal(s[i + 1])

\* The result of strptime: [ok |-> FALSE] stands for ValueError, and otherwise
\* the date is the triple <<year, month, day>>.
Strptime(s) ==
    LET yearOk == \A i \in 1..4 : At(s, i) \in Digits
        mw == MonthWidth(s, 6)
        dpos == 6 + mw + 1
        dw == DayWidth(s, dpos)
        matched == /\ yearOk
                   /\ At(s, 5) = "-"
                   /\ mw > 0
                   /\ At(s, 6 + mw) = "-"
                   /\ dw > 0
        year == 1000 * DigitVal(s[1]) + 100 * DigitVal(s[2])
                  + 10 * DigitVal(s[3]) + DigitVal(s[4])
        month == IntOf(s, 6, mw)
        day == IntOf(s, dpos, dw)
    IN  IF ~matched THEN [ok |-> FALSE, date |-> <<0, 0, 0>>]
        \* "unconverted data remains"
        ELSE IF Len(s) # dpos + dw - 1 THEN [ok |-> FALSE, date |-> <<0, 0, 0>>]
        \* datetime.date(year, month, day): year 0 and a day past the month's end raise
        ELSE IF year < 1 \/ day > DaysInMonth(year, month)
             THEN [ok |-> FALSE, date |-> <<0, 0, 0>>]
        ELSE [ok |-> TRUE, date |-> <<year, month, day>>]

\* date.__lt__
DateLess(a, b) ==
    \/ a[1] < b[1]
    \/ a[1] = b[1] /\ a[2] < b[2]
    \/ a[1] = b[1] /\ a[2] = b[2] /\ a[3] < b[3]


(***************************************************************************)
(* str.lower() and the substring test `needle in s`, on character          *)
(* sequences.                                                              *)
(***************************************************************************)
UpperLetters == << "A", "B", "C", "D", "E", "F", "G", "H", "I", "J", "K", "L", "M",
                   "N", "O", "P", "Q", "R", "S", "T", "U", "V", "W", "X", "Y", "Z" >>
LowerLetters == << "a", "b", "c", "d", "e", "f", "g", "h", "i", "j", "k", "l", "m",
                   "n", "o", "p", "q", "r", "s", "t", "u", "v", "w", "x", "y", "z" >>

LowerChar(c) ==
    IF \E i \in 1..26 : UpperLetters[i] = c
    THEN LowerLetters[CHOOSE i \in 1..26 : UpperLetters[i] = c]
    ELSE c

Lower(s) == [i \in 1..Len(s) |-> LowerChar(s[i])]

\* str.upper(), on the letters A-Z
UpperChar(c) ==
    IF \E i \in 1..26 : LowerLetters[i] = c
    THEN UpperLetters[CHOOSE i \in 1..26 : LowerLetters[i] = c]
    ELSE c

Upper(s) == [i \in 1..Len(s) |-> UpperChar(s[i])]

Contains(needle, s) ==
    \E i \in 0..(Len(s) - Len(needle)) :
        \A j \in 1..Len(needle) : s[i + j] = needle[j]

(***************************************************************************)
(* Tool results.  A result is the value the tool function returns:         *)
(*   isdict  whether it is a dictionary                                    *)
(*   keys    its keys                                                      *)
(*   status  result.get("status"), an Optional[str]                        *)
(*   error   which message result.get("error") is, an Optional[str]        *)
(*   lists   the list held under each list-valued key                      *)
(*   raised  None, or the class of the exception that left the function    *)
(*           instead of a value                                            *)
(***************************************************************************)
ListKeys == {"organic_results", "news", "videos", "links", "best_flights", "other_flights"}

NoLists == [k \in ListKeys |-> << >>]

\* StatusError with the "status" entry forgotten
StatusErrorWithoutStatus(msg) ==
    [isdict |-> TRUE, keys |-> {"error"}, status |-> None,
     error |-> Some(msg), lists |-> NoLists, raised |-> None]

StatusError(msg) ==
    [isdict |-> TRUE, keys |-> {"status", "error"}, status |-> Some("error"),
     error |-> Some(msg), lists |-> NoLists, raised |-> None]

\* {"error": msg}, the failure shape of geocode and get_weather
BareError(msg) ==
    [isdict |-> TRUE, keys |-> {"error"}, status |-> None,
     error |-> Some(msg), lists |-> NoLists, raised |-> None]

Success(keys, lists) ==
    [isdict |-> TRUE, keys |-> {"status"} \cup keys, status |-> Some("success"),
     error |-> None, lists |-> lists, raised |-> None]

\* The parsed JSON document returned as it is
PassThrough(body) ==
    [isdict |-> body.json = "dict", keys |-> body.keys, status |-> body.status,
     error |-> IF "error" \in body.keys THEN Some("api") ELSE None, lists |-> NoLists,
     raised |-> None]

\* No value: the exception leaves the function
Raised(cls) ==
    [isdict |-> FALSE, keys |-> {}, status |-> None, error |-> None, lists |-> NoLists,
     raised |-> Some(cls)]

(***************************************************************************)
(* try / except.  The body of a try block ends in a value or in an         *)
(* exception; the except clauses are tried in order and the first whose    *)
(* class the exception is an instance of gives the value returned.         *)
(***************************************************************************)
Ok(value) == [exc |-> None, value |-> value]
Exc(cls) == [exc |-> Some(cls), value |-> Raised(cls)]

\* The classes an exception of class cls is an instance of
Bases(cls) ==
    {cls, "Exception"} \cup
    CASE cls = "requests.ConnectionError" -> {"requests.RequestException"}
      [] cls = "requests.HTTPError" -> {"requests.RequestException"}
      [] cls = "requests.JSONDecodeError" ->
            {"requests.RequestException", "json.JSONDecodeError", "ValueError"}
      [] cls = "json.JSONDecodeError" -> {"ValueError"}
      [] OTHER -> {}

Clause(class, result) == [catches |-> class, result |-> result]

Except(outcome, clauses) ==
    IF outcome.exc = None THEN outcome.value
    ELSE LET matching == {k \in 1..Len(clauses) : clauses[k].catches \in Bases(outcome.exc[1])}
         IN  IF matching = {} THEN Raised(outcome.exc[1])
             ELSE clauses[CHOOSE k \in matching : \A l \in matching : k <= l].result

(***************************************************************************)
(* HTTP outcomes.  A response is either a network failure (requests.get    *)
(* raises a RequestException) or a status code with a body.  A body is     *)
(*   json      "invalid" (response.json() raises), "dict", "list", "null"  *)
(*   decode    the class response.json() raises for an invalid body:       *)
(*             requests.JSONDecodeError, which is a RequestException       *)
(*             (requests >= 2.27), or json.JSONDecodeError (earlier        *)
(*             versions of the library)                                    *)
(*   keys      the top-level keys of a dict                                *)
(*   status    the value under the top-level key "status", if any          *)
(*   n, m      the lengths of the main result list and of news_results     *)
(*   items_ok  whether the entries of the main list are dictionaries       *)
(*   ctype     the Content-Type header, None when absent                   *)
(*   anchors   the number of <a href> whose href is neither a fragment nor *)
(*             a javascript: link                                          *)
(***************************************************************************)
NetworkFailure == [net |-> "error"]

Reply(code, body) == [net |-> "ok", status_code |-> code, body |-> body]

Body(json, decode, keys, status, n, m, items_ok) ==
    [json |-> json, decode |-> decode, keys |-> keys, status |-> status,
     n |-> n, m |-> m, items_ok |-> items_ok]

Page(ctype, anchors) == [ctype |-> ctype, anchors |-> anchors]

\* response.raise_for_status(): HTTPError for 4xx and 5xx
RaisesForStatus(code) == code >= 400 /\ code < 600

\* ApiKey as a module-level constant bound when the program starts
ApiKeyAtImport(env) == environ0["SERPAPI_API_KEY"]

\* os.environ.get("SERPAPI_API_KEY")
ApiKey(env) == env["SERPAPI_API_KEY"]

MissingKey == StatusError("SERPAPI_API_KEY not found in environment variables.")

\* What a tool does before its HTTP request: either it returns `result`
\* (returned = TRUE) or it issues the GET.  `key` and `day` are the values it
\* has read from os.environ and from date.today() by then, None when it has
\* not read them.
Returns(result, key, day) ==
    [returned |-> TRUE, result |-> result, key |-> key, day |-> day]
Requests(key, day) ==
    [returned |-> FALSE, result |-> StatusError(""), key |-> key, day |-> day]

(***************************************************************************)
(* geocode and get_weather                                                 *)
(***************************************************************************)
geocode_call(args, env, day) == Requests(None, None)

\* Line 48: the query string of the URL
geocode_params(args, key) ==
    [name |-> args.city_name, count |-> 10, language |-> "en", format |-> "json"]

geocode_try(args, resp) ==
    IF resp.net = "error" THEN Exc("requests.ConnectionError")
    ELSE IF RaisesForStatus(resp.status_code) THEN Exc("requests.HTTPError")
    ELSE IF resp.body.json = "invalid" THEN Exc(resp.body.decode)
    \* `"results" not in data` raises TypeError when data is None
    ELSE IF resp.body.json = "null" THEN Exc("TypeError")
    ELSE IF resp.body.json = "list" \/ "results" \notin resp.body.keys
         THEN Ok(BareError("No results found for the given city"))
    ELSE Ok(PassThrough(resp.body))

\* geocode_except without its last clause, `except Exception`
geocode_except_http_only ==
    << Clause("requests.HTTPError", BareError("HTTP error occurred")) >>

geocode_except ==
    << Clause("requests.HTTPError", BareError("HTTP error occurred")),
       Clause("Exception", BareError("Other error occurred")) >>

geocode_reply(args, resp) == Except(geocode_try(args, resp), geocode_except)

get_weather_call(args, env, day) == Requests(None, None)

\* Line 48: the query string of the URL
get_weather_params(args, key) ==
    [latitude |-> args.latitude, longitude |-> args.longitude,
     current |-> "temperature_2m,is_day,precipitation,rain,showers,snowfall",
     timezone |-> "America%2FChicago"]

get_weather_try(args, resp) ==
    IF resp.net = "error" THEN Exc("requests.ConnectionError")
    ELSE IF RaisesForStatus(resp.status_code) THEN Exc("requests.HTTPError")
    ELSE IF resp.body.json = "invalid" THEN Exc(resp.body.decode)
    ELSE Ok(PassThrough(resp.body))

get_weather_except ==
    << Clause("requests.HTTPError", BareError("HTTP error occurred")),
       Clause("Exception", BareError("Other error occurred")) >>

get_weather_reply(args, resp) == Except(get_weather_try(args, resp), get_weather_except)

(***************************************************************************)
(* web_search                                                              *)
(***************************************************************************)
DefaultNumResults == 10
SearchNumCap == 100

web_search_call(args, env, day) ==
    IF ~TruthyStr(ApiKey(env)) THEN Returns(MissingKey, Some(ApiKey(env)), None)
    ELSE Requests(Some(ApiKey(env)), None)

\* Lines 45-46: `if time_period is None: time_period = "past_year"`
DefaultTimePeriod == "past_year"

\* Lines 75-80: time_map
time_map == [past_day |-> "d", past_week |-> "w", past_month |-> "m", past_year |-> "y"]

\* web_search_params with a time period that is not in time_map passed on as
\* it is
web_search_params_unmapped(args, key) ==
    LET num_results == IF IsNone(args.num_results) THEN DefaultNumResults
                       ELSE args.num_results[1]
        time_period == IF IsNone(args.time_period) THEN DefaultTimePeriod
                       ELSE args.time_period[1]
    IN  [q |-> args.query, api_key |-> key, num |-> Min(num_results, SearchNumCap),
         safe |-> "active", gl |-> "us", hl |-> "en",
         tbs |-> IF time_period = "" THEN None
                 ELSE IF time_period \in DOMAIN time_map
                      THEN Some(<< "qdr", time_map[time_period] >>)
                 ELSE Some(<< "qdr", time_period >>)]

\* Lines 36-82: the parameters of the request.  An entry the code adds under a
\* condition is an Optional, None when the key is not in `params`.
web_search_params(args, key) ==
    LET num_results == IF IsNone(args.num_results) THEN DefaultNumResults
                       ELSE args.num_results[1]
        time_period == IF IsNone(args.time_period) THEN DefaultTimePeriod
                       ELSE args.time_period[1]
    IN  [q |-> args.query, api_key |-> key, num |-> Min(num_results, SearchNumCap),
         safe |-> "active", gl |-> "us", hl |-> "en",
         tbs |-> IF time_period # "" /\ time_period \in DOMAIN time_map
                 THEN Some(<< "qdr", time_map[time_period] >>)
                 ELSE None]

web_search_try(args, resp) ==
    LET num_results == IF IsNone(args.num_results) THEN DefaultNumResults
                       ELSE args.num_results[1]
        include_news == IF IsNone(args.include_news) THEN FALSE
                        ELSE args.include_news[1]
        body == resp.body
        organic == IF "organic_results" \in body.keys
                   THEN SlicePrefix(Items(body.n), num_results) ELSE << >>
        withNews == include_news /\ "news_results" \in body.keys
        news == IF withNews THEN SlicePrefix(Items(body.m), num_results) ELSE << >>
    IN  IF resp.net = "error" THEN Exc("requests.ConnectionError")
        ELSE IF resp.status_code # 200 THEN Ok(StatusError("SerpAPI request failed"))
        ELSE IF body.json = "invalid" THEN Exc(body.decode)
        \* `in` on None raises TypeError; a list has no .get (AttributeError)
        ELSE IF body.json = "null" THEN Exc("TypeError")
        ELSE IF body.json = "list" THEN Exc("AttributeError")
        \* item.get on an entry that is no dictionary raises AttributeError
        ELSE IF organic # << >> /\ ~body.items_ok THEN Exc("AttributeError")
        ELSE Ok(Success({"query", "organic_results", "search_metadata"}
                        \cup (IF withNews THEN {"news"} ELSE {})
                        \cup (body.keys \cap {"answer_box", "knowledge_graph",
                                              "related_questions", "pagination"}),
                     [NoLists EXCEPT !["organic_results"] = organic, !["news"] = news]))

web_search_except ==
    << Clause("requests.RequestException", StatusError("Network error occurred")),
       Clause("json.JSONDecodeError", StatusError("Failed to parse the search results.")),
       Clause("Exception", StatusError("Error during web search")) >>

web_search_reply(args, resp) == Except(web_search_try(args, resp), web_search_except)

(***************************************************************************)
(* youtube_search                                                          *)
(***************************************************************************)
youtube_search_call(args, env, day) ==
    IF ~TruthyStr(ApiKey(env)) THEN Returns(MissingKey, Some(ApiKey(env)), None)
    ELSE Requests(Some(ApiKey(env)), None)

\* Lines 63-69 and 79-83: the filter codes
date_filters ==
    [last_hour |-> "EgIIAQ%253D%253D", today |-> "EgQIAhAB", this_week |-> "EgQIAxAB",
     this_month |-> "EgQIBBAB", this_year |-> "EgQIBRAB"]
duration_filters == [short |-> "EgQQARgB", medium |-> "EgQQARgC", long |-> "EgQQARgD"]

\* AddCode with `=` in place of `+=`
AddCodeOverwriting(sp, code) == Some(<< code >>)

\* Lines 70-75 and 84-89: `params["sp"] += f",{code}"` when "sp" is in params,
\* `params["sp"] = code` when it is not.  The value of "sp" is kept as the
\* sequence of the codes that the commas separate.
AddCode(sp, code) == IF IsNone(sp) THEN Some(<< code >>) ELSE Some(Append(sp[1], code))

\* Lines 40-91: the parameters of the request
youtube_search_params(args, key) ==
    LET sorted == CASE args.sort_by = "relevance" -> None
                    [] args.sort_by = "upload_date" -> Some(<< "CAI%253D" >>)
                    [] args.sort_by = "view_count" -> Some(<< "CAM%253D" >>)
                    [] args.sort_by = "rating" -> Some(<< "CAE%253D" >>)
                    [] OTHER -> None
        dated == IF TruthyStr(args.upload_date) /\ args.upload_date[1] \in DOMAIN date_filters
                 THEN AddCode(sorted, date_filters[args.upload_date[1]])
                 ELSE sorted
        timed == IF TruthyStr(args.duration) /\ args.duration[1] \in DOMAIN duration_filters
                 THEN AddCode(dated, duration_filters[args.duration[1]])
                 ELSE dated
    IN  [search_query |-> args.query, api_key |-> key, engine |-> "youtube",
         num |-> Min(args.num_results, SearchNumCap), gl |-> "us", hl |-> "en",
         safe |-> "active", sp |-> timed]

youtube_search_try(args, resp) ==
    LET body == resp.body
        videos == IF "video_results" \in body.keys
                  THEN SlicePrefix(Items(body.n), args.num_results) ELSE << >>
    IN  IF resp.net = "error" THEN Exc("requests.ConnectionError")
        ELSE IF resp.status_code # 200 THEN Ok(StatusError("SerpAPI request failed"))
        ELSE IF body.json = "invalid" THEN Exc(body.decode)
        ELSE IF body.json = "null" THEN Exc("TypeError")
        ELSE IF body.json = "list" THEN Exc("AttributeError")
        ELSE IF videos # << >> /\ ~body.items_ok
             THEN Exc("AttributeError")
        ELSE Ok(Success({"query", "videos", "search_information", "search_metadata"}
                        \cup (body.keys \cap {"related_searches"}),
                     [NoLists EXCEPT !["videos"] = videos]))

youtube_search_except ==
    << Clause("requests.RequestException", StatusError("Network error occurred")),
       Clause("json.JSONDecodeError", StatusError("Failed to parse the search results.")),
       Clause("Exception", StatusError("Error during YouTube search")) >>

youtube_search_reply(args, resp) == Except(youtube_search_try(args, resp), youtube_search_except)

(***************************************************************************)
(* scholar_search                                                          *)
(***************************************************************************)
ScholarNumCap == 20

scholar_search_call(args, env, day) ==
    IF ~TruthyStr(ApiKey(env)) THEN Returns(MissingKey, Some(ApiKey(env)), None)
    ELSE Requests(Some(ApiKey(env)), None)

\* Lines 58-63: the publication years
year_filters ==
    [since_2023 |-> "2023", since_2020 |-> "2020", since_2017 |-> "2017",
     since_2014 |-> "2014"]

\* Lines 40-65: the parameters of the request
scholar_search_params(args, key) ==
    [q |-> args.query, api_key |-> key, engine |-> "google_scholar",
     num |-> Min(args.num_results, ScholarNumCap), hl |-> "en",
     as_user |-> IF TruthyStr(args.author) THEN args.author ELSE None,
     as_sdt |-> IF args.sort_by = "date" THEN Some("0,5") ELSE None,
     as_ylo |-> IF TruthyStr(args.publication_date)
                   /\ args.publication_date[1] \in DOMAIN year_filters
                THEN Some(year_filters[args.publication_date[1]])
                ELSE None]

scholar_search_try(args, resp) ==
    LET body == resp.body
        \* every entry of the response is appended: the list is not sliced
        organic == IF "organic_results" \in body.keys THEN Items(body.n) ELSE << >>
    IN  IF resp.net = "error" THEN Exc("requests.ConnectionError")
        ELSE IF resp.status_code # 200 THEN Ok(StatusError("SerpAPI request failed"))
        ELSE IF body.json = "invalid" THEN Exc(body.decode)
        ELSE IF body.json = "null" THEN Exc("TypeError")
        ELSE IF body.json = "list" THEN Exc("AttributeError")
        ELSE IF organic # << >> /\ ~body.items_ok
             THEN Exc("AttributeError")
        ELSE Ok(Success({"query", "organic_results", "citation_results", "profiles",
                      "related_searches", "search_metadata"}
                        \cup (body.keys \cap {"pagination"}),
                     [NoLists EXCEPT !["organic_results"] = organic]))

scholar_search_except ==
    << Clause("requests.RequestException", StatusError("Network error occurred")),
       Clause("json.JSONDecodeError", StatusError("Failed to parse the search results.")),
       Clause("Exception", StatusError("Error during Google Scholar search")) >>

scholar_search_reply(args, resp) == Except(scholar_search_try(args, resp), scholar_search_except)

(***************************************************************************)
(* google_flights_search                                                   *)
(***************************************************************************)
\* ValidateDates with `<=` in place of `<` in the comparison of the two dates
ValidateDatesInclusive(departure_date, return_date, day) ==
    LET dep == Strptime(departure_date)
        ret == Strptime(return_date[1])
    IN  IF ~dep.ok THEN [ok |-> FALSE, error |-> "Invalid date format."]
        ELSE IF DateLess(dep.date, day)
             THEN [ok |-> FALSE, error |-> "Departure date is in the past."]
        ELSE IF ~TruthyChars(return_date) THEN [ok |-> TRUE, error |-> ""]
        ELSE IF ~ret.ok THEN [ok |-> FALSE, error |-> "Invalid date format."]
        ELSE IF ~DateLess(dep.date, ret.date)
             THEN [ok |-> FALSE, error |-> "Return date cannot be before departure date."]
        ELSE [ok |-> TRUE, error |-> ""]

\* ValidateDates with `<=` in place of `<` in the comparison with today
ValidateDatesTodayIsPast(departure_date, return_date, day) ==
    LET dep == Strptime(departure_date)
        ret == Strptime(return_date[1])
    IN  IF ~dep.ok THEN [ok |-> FALSE, error |-> "Invalid date format."]
        ELSE IF ~DateLess(day, dep.date)
             THEN [ok |-> FALSE, error |-> "Departure date is in the past."]
        ELSE IF ~TruthyChars(return_date) THEN [ok |-> TRUE, error |-> ""]
        ELSE IF ~ret.ok THEN [ok |-> FALSE, error |-> "Invalid date format."]
        ELSE IF DateLess(ret.date, dep.date)
             THEN [ok |-> FALSE, error |-> "Return date cannot be before departure date."]
        ELSE [ok |-> TRUE, error |-> ""]

\* Lines 51-73: the date validation.  [ok |-> TRUE] when it lets the call go on.
ValidateDates(departure_date, return_date, day) ==
    LET dep == Strptime(departure_date)
        ret == Strptime(return_date[1])
    IN  IF ~dep.ok THEN [ok |-> FALSE, error |-> "Invalid date format."]
        ELSE IF DateLess(dep.date, day)
             THEN [ok |-> FALSE, error |-> "Departure date is in the past."]
        ELSE IF ~TruthyChars(return_date) THEN [ok |-> TRUE, error |-> ""]
        ELSE IF ~ret.ok THEN [ok |-> FALSE, error |-> "Invalid date format."]
        ELSE IF DateLess(ret.date, dep.date)
             THEN [ok |-> FALSE, error |-> "Return date cannot be before departure date."]
        ELSE [ok |-> TRUE, error |-> ""]

\* google_flights_search_call with the dates validated before the key is read
google_flights_search_call_dates_first(args, env, day) ==
    LET checked == ValidateDates(args.departure_date, args.return_date, day)
    IN  IF ~checked.ok THEN Returns(StatusError(checked.error), None, Some(day))
        ELSE IF ~TruthyStr(ApiKey(env))
             THEN Returns(MissingKey, Some(ApiKey(env)), Some(day))
        ELSE Requests(Some(ApiKey(env)), Some(day))

google_flights_search_call(args, env, day) ==
    LET checked == ValidateDates(args.departure_date, args.return_date, day)
    IN  IF ~TruthyStr(ApiKey(env)) THEN Returns(MissingKey, Some(ApiKey(env)), None)
        ELSE IF ~checked.ok
             THEN Returns(StatusError(checked.error), Some(ApiKey(env)), Some(day))
        ELSE Requests(Some(ApiKey(env)), Some(day))

\* Lines 101-106: class_mapping
class_mapping ==
    [economy |-> "ECONOMY", premium_economy |-> "PREMIUM_ECONOMY",
     business |-> "BUSINESS", first |-> "FIRST"]

\* Lines 79-124: the parameters of the request
google_flights_search_params(args, key) ==
    [engine |-> "google_flights", api_key |-> key,
     departure_id |-> Upper(args.origin), arrival_id |-> Upper(args.destination),
     outbound_date |-> args.departure_date, currency |-> args.currency,
     adults |-> args.adults,
     return_date |-> IF TruthyChars(args.return_date) THEN args.return_date ELSE None,
     children |-> IF args.children > 0 THEN Some(args.children) ELSE None,
     infants_in_seat |-> IF args.infants > 0 THEN Some(args.infants) ELSE None,
     flight_class |-> IF args.flight_class \in DOMAIN class_mapping
                      THEN Some(class_mapping[args.flight_class]) ELSE None,
     max_stops |-> CASE args.stops = Some("nonstop") -> Some(0)
                     [] args.stops = Some("1stop") -> Some(1)
                     [] args.stops = Some("2stops") -> Some(2)
                     [] OTHER -> None,
     price_max |-> IF args.max_price # None /\ args.max_price[1] # 0
                   THEN args.max_price ELSE None,
     airlines |-> IF args.airlines # None /\ Len(args.airlines[1]) > 0
                  THEN args.airlines ELSE None]

google_flights_search_try(args, resp) ==
    LET body == resp.body
        best == IF "best_flights" \in body.keys THEN Items(body.n) ELSE << >>
        other == IF "other_flights" \in body.keys THEN Items(body.m) ELSE << >>
    IN  IF resp.net = "error" THEN Exc("requests.ConnectionError")
        ELSE IF resp.status_code # 200 THEN Ok(StatusError("SerpAPI request failed"))
        ELSE IF body.json = "invalid" THEN Exc(body.decode)
        ELSE IF body.json = "null" THEN Exc("TypeError")
        ELSE IF body.json = "list" THEN Exc("AttributeError")
        ELSE IF (best # << >> \/ other # << >>) /\ ~body.items_ok
             THEN Exc("AttributeError")
        ELSE Ok(Success({"origin", "destination", "departure_date", "return_date",
                      "best_flights", "other_flights", "airlines_information",
                      "price_insights", "search_metadata"},
                     [NoLists EXCEPT !["best_flights"] = best, !["other_flights"] = other]))

google_flights_search_except ==
    << Clause("requests.RequestException", StatusError("Network error occurred")),
       Clause("json.JSONDecodeError", StatusError("Failed to parse the search results.")),
       Clause("Exception", StatusError("Error during flight search")) >>

google_flights_search_reply(args, resp) == Except(google_flights_search_try(args, resp), google_flights_search_except)

(***************************************************************************)
(* web_fetch                                                               *)
(***************************************************************************)
MaxLinks == 100

TextHtml == << "t", "e", "x", "t", "/", "h", "t", "m", "l" >>

\* IsHtml without the call of lower()
IsHtmlCaseSensitive(ctype) == Contains(TextHtml, IF IsNone(ctype) THEN << >> ELSE ctype[1])

\* 'text/html' in response.headers.get('Content-Type', '').lower()
IsHtml(ctype) == Contains(TextHtml, Lower(IF IsNone(ctype) THEN << >> ELSE ctype[1]))

web_fetch_call(args, env, day) == Requests(None, None)

\* Lines 31-35: the request
FetchTimeout == 10
web_fetch_params(args, key) == [url |-> args.url, timeout |-> FetchTimeout]

web_fetch_try(args, resp) ==
    LET page == resp.body
        common == {"url", "content_type", "size", "headers"}
    IN  IF resp.net = "error" THEN Exc("requests.ConnectionError")
        ELSE IF resp.status_code # 200 THEN Ok(StatusError("Request failed"))
        ELSE IF args.extract_text /\ IsHtml(page.ctype)
             THEN Ok(Success(common \cup {"title", "text_content", "meta_tags", "links"},
                          [NoLists EXCEPT !["links"] =
                               SlicePrefix(Items(page.anchors), MaxLinks)]))
        ELSE Ok(Success(common \cup {"raw_content"}, NoLists))

web_fetch_except ==
    << Clause("requests.RequestException", StatusError("Network error occurred")),
       Clause("Exception", StatusError("Error during web fetch")) >>

web_fetch_reply(args, resp) == Except(web_fetch_try(args, resp), web_fetch_except)

(***************************************************************************)
(* The tools as the agent runtime sees them                                *)
(***************************************************************************)
Tools == {"geocode", "get_weather", "web_search", "web_fetch", "youtube_search",
          "scholar_search", "google_flights_search"}

\* The tool's code up to its HTTP request
ToolCall(tool, args, env, day) ==
    CASE tool = "geocode" -> geocode_call(args, env, day)
      [] tool = "get_weather" -> get_weather_call(args, env, day)
      [] tool = "web_search" -> web_search_call(args, env, day)
      [] tool = "web_fetch" -> web_fetch_call(args, env, day)
      [] tool = "youtube_search" -> youtube_search_call(args, env, day)
      [] tool = "scholar_search" -> scholar_search_call(args, env, day)
      [] tool = "google_flights_search" -> google_flights_search_call(args, env, day)

\* The tool's code from the outcome of its HTTP request on
\* What the GET of the tool carries
ToolParams(tool, args, key) ==
    CASE tool = "geocode" -> geocode_params(args, key)
      [] tool = "get_weather" -> get_weather_params(args, key)
      [] tool = "web_search" -> web_search_params(args, key)
      [] tool = "web_fetch" -> web_fetch_params(args, key)
      [] tool = "youtube_search" -> youtube_search_params(args, key)
      [] tool = "scholar_search" -> scholar_search_params(args, key)
      [] tool = "google_flights_search" -> google_flights_search_params(args, key)

ToolReply(tool, args, resp) ==
    CASE tool = "geocode" -> geocode_reply(args, resp)
      [] tool = "get_weather" -> get_weather_reply(args, resp)
      [] tool = "web_search" -> web_search_reply(args, resp)
      [] tool = "web_fetch" -> web_fetch_reply(args, resp)
      [] tool = "youtube_search" -> youtube_search_reply(args, resp)
      [] tool = "scholar_search" -> scholar_search_reply(args, resp)
      [] tool = "google_flights_search" -> google_flights_search_reply(args, resp)


(***************************************************************************)
(* Inputs: the arguments the agent runtime may call the tools with and the *)
(* outcomes of the HTTP requests.                                          *)
(***************************************************************************)
Todays == { <<2026, 11, 2>>, <<2026, 12, 1>> }

DateToday == << "2", "0", "2", "6", "-", "1", "1", "-", "0", "2" >>
DatePast == << "2", "0", "2", "6", "-", "1", "1", "-", "0", "1" >>
DateFuture == << "2", "0", "2", "6", "-", "1", "2", "-", "0", "1" >>
DateLater == << "2", "0", "2", "6", "-", "1", "2", "-", "0", "5" >>
DateShortDay == << "2", "0", "2", "6", "-", "1", "2", "-", "1" >>
DateShortMonth == << "2", "0", "2", "7", "-", "1", "-", "1", "5" >>
DateNoSuchDay == << "2", "0", "2", "7", "-", "0", "2", "-", "3", "0" >>
DateSlashes == << "1", "2", "/", "0", "1", "/", "2", "0", "2", "6" >>
DateEmpty == << >>

DepartureDates == {DateToday, DatePast, DateFuture, DateShortDay, DateShortMonth,
                   DateNoSuchDay, DateSlashes, DateEmpty}
ReturnDates == {None, Some(DateEmpty), Some(DateLater), Some(DatePast), Some(DateFuture),
                Some(DateShortDay), Some(DateSlashes)}

NumResults == {-1, 0, 2, 20, 150}

GeocodeCalls ==
    {[tool |-> "geocode", args |-> [city_name |-> c]] : c \in {"Paris", "Paris, France"}}

WeatherCalls ==
    {[tool |-> "get_weather", args |-> [latitude |-> 48, longitude |-> 2]]}

WebSearchCalls ==
    {[tool |-> "web_search",
      args |-> [query |-> "q", num_results |-> n, include_news |-> b, time_period |-> t]] :
        n \in {None} \cup {Some(k) : k \in NumResults},
        b \in {None, Some(TRUE), Some(FALSE)},
        t \in {None, Some("past_day"), Some("never")}}

WebFetchCalls ==
    {[tool |-> "web_fetch", args |-> [url |-> "u", extract_text |-> b]] : b \in BOOLEAN}

YoutubeCalls ==
    {[tool |-> "youtube_search",
      args |-> [query |-> "q", num_results |-> n, sort_by |-> s,
                upload_date |-> None, duration |-> None]] :
        n \in NumResults, s \in {"relevance", "view_count"}}

ScholarCalls ==
    {[tool |-> "scholar_search",
      args |-> [query |-> "q", num_results |-> n, sort_by |-> s,
                publication_date |-> None, author |-> None]] :
        n \in NumResults, s \in {"relevance", "date"}}

\* The arguments of google_flights_search other than the dates
Origin == << "n", "y", "c" >>
Destination == << "L", "H", "R" >>
Trip(stops, flight_class, children, max_price, airlines) ==
    [origin |-> Origin, destination |-> Destination, adults |-> 1, children |-> children,
     infants |-> 0, stops |-> stops, flight_class |-> flight_class,
     max_price |-> max_price, currency |-> "USD", airlines |-> airlines]

FlightsCalls ==
    {[tool |-> "google_flights_search",
      args |-> [departure_date |-> d, return_date |-> r]
                  @@ Trip(None, "economy", 0, None, None)] :
        d \in DepartureDates, r \in ReturnDates}

\* The values of the enumerated arguments: the documented ones and, last in
\* each set, values that are not documented
TimePeriods == {None, Some("past_day"), Some("past_week"), Some("past_month"),
                Some("past_year"), Some(""), Some("never")}
YoutubeSorts == {"relevance", "upload_date", "view_count", "rating", "newest"}
UploadDates == {None, Some("last_hour"), Some("today"), Some("this_week"),
                Some("this_month"), Some("this_year"), Some(""), Some("last_decade")}
Durations == {None, Some("short"), Some("medium"), Some("long"), Some("epic")}
ScholarSorts == {"relevance", "date", "citations"}
PublicationDates == {None, Some("since_2023"), Some("since_2020"), Some("since_2017"),
                     Some("since_2014"), Some("since_1999")}
Authors == {None, Some(""), Some("a")}
Stops == {None, Some("any"), Some("nonstop"), Some("1stop"), Some("2stops"), Some("3stops")}
FlightClasses == {"economy", "premium_economy", "business", "first", "cargo"}

\* Calls that differ in the arguments the request parameters are built from
WebSearchParamCalls ==
    {[tool |-> "web_search",
      args |-> [query |-> "q", num_results |-> n, include_news |-> Some(FALSE),
                time_period |-> t]] :
        n \in {None, Some(150)}, t \in TimePeriods}

YoutubeParamCalls ==
    {[tool |-> "youtube_search",
      args |-> [query |-> "q", num_results |-> 2, sort_by |-> s,
                upload_date |-> u, duration |-> d]] :
        s \in YoutubeSorts, u \in UploadDates, d \in Durations}

ScholarParamCalls ==
    {[tool |-> "scholar_search",
      args |-> [query |-> "q", num_results |-> 2, sort_by |-> s,
                publication_date |-> y, author |-> a]] :
        s \in ScholarSorts, y \in PublicationDates, a \in Authors}

FlightsParamCalls ==
    {[tool |-> "google_flights_search",
      args |-> [departure_date |-> DateFuture, return_date |-> r] @@ Trip(st, fc, ch, mp, al)] :
        r \in {None, Some(DateLater)}, st \in Stops, fc \in FlightClasses, ch \in {0, 2},
        mp \in {None, Some(0), Some(500)}, al \in {None, Some(<< >>), Some(<< "BA", "AA" >>)}}

ParamCalls == WebSearchParamCalls \cup YoutubeParamCalls \cup ScholarParamCalls
                 \cup FlightsParamCalls

Calls == GeocodeCalls \cup WeatherCalls \cup WebSearchCalls \cup WebFetchCalls
            \cup YoutubeCalls \cup ScholarCalls \cup FlightsCalls

StatusCodes == {200, 203, 404, 503}
ListSizes == {0, 3, 21, 101}

\* The bodies of a JSON endpoint whose main list is under `main` and whose
\* second list is under `second`
JsonBodies(main, second) ==
    {Body("invalid", d, {}, None, 0, 0, TRUE) :
        d \in {"requests.JSONDecodeError", "json.JSONDecodeError"}}
    \cup {Body(j, "", {}, None, 0, 0, TRUE) : j \in {"null", "list", "dict"}}
    \cup {Body("dict", "", {main}, None, n, 0, ok) : n \in ListSizes, ok \in BOOLEAN}
    \cup {Body("dict", "", {main, second, "pagination"}, None, 3, m, TRUE) : m \in ListSizes}
    \cup {Body("dict", "", {main, "status"}, Some(st), 3, 0, TRUE) : st \in {"ok", "error"}}

ContentTypes == {None,
                 Some(<< "t", "e", "x", "t", "/", "h", "t", "m", "l" >>),
                 Some(<< "T", "e", "x", "t", "/", "H", "T", "M", "L", ";", "x" >>),
                 Some(<< "t", "e", "x", "t", "/", "p", "l", "a", "i", "n" >>)}

Pages == {Page(c, a) : c \in ContentTypes, a \in {0, 3, 100, 101}}

Bodies(tool) ==
    CASE tool = "geocode" -> JsonBodies("results", "generationtime_ms")
      [] tool = "get_weather" -> JsonBodies("current", "current_units")
      [] tool = "web_search" -> JsonBodies("organic_results", "news_results")
      [] tool = "web_fetch" -> Pages
      [] tool = "youtube_search" -> JsonBodies("video_results", "related_searches")
      [] tool = "scholar_search" -> JsonBodies("organic_results", "citations")
      [] tool = "google_flights_search" -> JsonBodies("best_flights", "other_flights")

Responses(tool) ==
    {NetworkFailure} \cup {Reply(c, b) : c \in StatusCodes, b \in Bodies(tool)}

(***************************************************************************)
(* Tool invocations.  A frame is the state of one call of a tool function: *)
(*   pc      idle, waiting (the GET is issued and not yet answered), done  *)
(*   key     the value os.environ.get("SERPAPI_API_KEY") gave this call,   *)
(*           None when the call has not read it                            *)
(*   day     the value date.today() gave this call, None likewise          *)
(*   gets    the number of HTTP GETs this call has issued                  *)
(*   params  the parameters of the GET, None when none is issued           *)
(*   resp    the outcome of the GET, None before it                        *)
(*   result  the value returned                                            *)
(***************************************************************************)
Slots == {1, 2}

Idle == [pc |-> "idle"]

\* The runtime calls a tool: the function runs up to its HTTP request.
Call(i, calls) ==
    /\ pc = "streaming"
    /\ ncalls < MaxCalls
    /\ inv[i].pc = "idle"
    /\ \E c \in calls :
         LET before == ToolCall(c.tool, c.args, environ, today)
             frame == [tool |-> c.tool, args |-> c.args, key |-> before.key,
                       day |-> before.day, resp |-> None]
             api_key == IF IsNone(before.key) THEN None ELSE before.key[1]
         IN  inv' = [inv EXCEPT ![i] =
                 IF before.returned
                 THEN [pc |-> "done", gets |-> 0, params |-> None,
                       result |-> before.result] @@ frame
                 ELSE [pc |-> "waiting", gets |-> 1,
                       params |-> Some(ToolParams(c.tool, c.args, api_key))] @@ frame]
    /\ ncalls' = ncalls + 1
    /\ UNCHANGED << environ, today, nenv >>
    /\ UNCHANGED chatVars

\* Respond with the request issued again after a failure
RespondRetrying(i, replies) ==
    /\ inv[i].pc = "waiting"
    /\ \E r \in replies[inv[i].tool] :
         inv' = [inv EXCEPT ![i] =
                    IF (r.net = "error" \/ r.status_code # 200) /\ inv[i].gets < 3
                    THEN [gets |-> inv[i].gets + 1] @@ inv[i]
                    ELSE [pc |-> "done", resp |-> Some(r),
                          result |-> ToolReply(inv[i].tool, inv[i].args, r)] @@ inv[i]]
    /\ UNCHANGED << environ, today, nenv, ncalls >>
    /\ UNCHANGED chatVars

\* The GET ends, in a response or in a network failure, and the function
\* runs to its return.
Respond(i, replies) ==
    /\ inv[i].pc = "waiting"
    /\ \E r \in replies[inv[i].tool] :
         inv' = [inv EXCEPT ![i] =
                    [pc |-> "done", resp |-> Some(r),
                     result |-> ToolReply(inv[i].tool, inv[i].args, r)] @@ inv[i]]
    /\ UNCHANGED << environ, today, nenv, ncalls >>
    /\ UNCHANGED chatVars

\* Return with the frames kept in one buffer that the return clears
ReturnClearingAll(i) ==
    /\ inv[i].pc = "done"
    /\ inv' = [j \in Slots |-> Idle]
    /\ UNCHANGED << environ, today, nenv, ncalls >>
    /\ UNCHANGED chatVars

\* The runtime takes the returned value.
Return(i) ==
    /\ inv[i].pc = "done"
    /\ inv' = [inv EXCEPT ![i] = Idle]
    /\ UNCHANGED << environ, today, nenv, ncalls >>
    /\ UNCHANGED chatVars

(***************************************************************************)
(* The environment.  Something outside the program sets, unsets or         *)
(* replaces an environment variable after startup.                         *)
(***************************************************************************)
EnvVars == {"OPENAI_API_BASE_URL", "OPENAI_API_KEY", "MODEL_NAME", "SERPAPI_API_KEY"}

EnvValues(var) ==
    IF var = "SERPAPI_API_KEY" THEN {None, Some(""), Some("k1"), Some("k2")}
    ELSE {None, Some(""), Some("v")}

\* Every change of one variable
Changes(changeable) == {<< var, val >> : var \in changeable, val \in {None, Some(""), Some("v"), Some("k1"), Some("k2")}}
                          \cap {c \in EnvVars \X {None, Some(""), Some("v"), Some("k1"), Some("k2")} :
                                   c[2] \in EnvValues(c[1])}

EnvChange(changes) ==
    /\ pc \notin {"startup", "config_error", "exited"}
    /\ nenv < MaxEnvChanges
    /\ \E c \in changes :
         /\ environ[c[1]] # c[2]
         /\ environ' = [environ EXCEPT ![c[1]] = c[2]]
    /\ nenv' = nenv + 1
    /\ UNCHANGED << today, inv, ncalls >>
    /\ UNCHANGED chatVars


(***************************************************************************)
(* src/example.py: module import                                           *)
(***************************************************************************)
DefaultModel == "gpt-4o"

\* Lines 24-26
ReadConfig(env) ==
    [BASE_URL |-> env["OPENAI_API_BASE_URL"],
     API_KEY |-> env["OPENAI_API_KEY"],
     MODEL_NAME |-> IF TruthyStr(env["MODEL_NAME"]) THEN env["MODEL_NAME"][1]
                    ELSE DefaultModel]

NoConfig == [BASE_URL |-> None, API_KEY |-> None, MODEL_NAME |-> ""]

\* ConfigError with `API_KEY is None` in place of `not API_KEY`
ConfigErrorOnNoneOnly(cfg) == cfg.API_KEY = None

\* Lines 28-29: `if not API_KEY: raise ValueError(...)`
ConfigError(cfg) == ~TruthyStr(cfg.API_KEY)

\* print(...): one line written to the terminal, `text` with the value `arg`
Line(text, arg) == [text |-> text, arg |-> arg]

\* `if debug: print(...)`: the lines are written in debug mode only
IfDebug(flag, lines) == IF flag THEN lines ELSE << >>

\* Lines 117-124: the banner of chat_with_agent
Banner(flag) ==
    << Line("Chat with the Custom Tools Agent", "") >>
        \o IfDebug(flag, << Line("Debug mode enabled", "") >>)

\* Lines 20-45 and 200-203, up to the first input() of chat_with_agent
Startup ==
    /\ pc = "startup"
    /\ config' = ReadConfig(environ)
    /\ environ0' = environ
    /\ pc' = IF ConfigError(ReadConfig(environ)) THEN "config_error" ELSE "prompt"
    /\ printed' = IF ConfigError(ReadConfig(environ)) THEN << >> ELSE Banner(debug)
    /\ UNCHANGED << conversation, user_input, run_input, final_items, message_output,
                    turn, nevents, event, nreads, arrived, debug >>
    /\ UNCHANGED toolVars

(***************************************************************************)
(* src/example.py: chat_with_agent                                         *)
(***************************************************************************)
Exit == << "e", "x", "i", "t" >>

Lines == { Exit,
           << "E", "X", "I", "T" >>,
           << "E", "x", "i", "t" >>,
           << " ", "e", "x", "i", "t" >>,
           << "e", "x", "i", "t", " " >>,
           << "e", "x", "i" >>,
           << "h", "i" >>,
           << >> }

\* IsSentinel without the call of lower()
IsSentinelCaseSensitive(line) == line = Exit

\* Line 131
IsSentinel(line) == Lower(line) = Exit

\* {"role": "user", "content": user_input}
UserMessage(line) == [role |-> "user", content |-> line]

\* The input of Runner.run_streamed: the bare string, or a list
BareInput(line) == [bare |-> TRUE, text |-> line, list |-> << >>]
ListInput(items) == [bare |-> FALSE, text |-> << >>, list |-> items]
NoInput == ListInput(<< >>)

\* NewInput without the test of `conversation`
NewInputAlwaysList(history, line) == ListInput(history \o << UserMessage(line) >>)

\* Lines 138-144
NewInput(history, line) ==
    IF history # << >> THEN ListInput(history \o << UserMessage(line) >>)
    ELSE BareInput(line)

\* Lines 130-152: one line is read; the sentinel ends the loop, any other
\* line starts a run.
ReadLine(lines) ==
    /\ pc = "prompt"
    /\ \E line \in lines :
         /\ nreads' = nreads + 1
         /\ user_input' = line
         /\ IF IsSentinel(line)
            THEN /\ pc' = "exited"
                 /\ printed' = << >>
                 /\ UNCHANGED << run_input, final_items, message_output, turn,
                                 arrived >>
            ELSE /\ turn < MaxTurns
                 /\ run_input' = NewInput(conversation, line)
                 /\ final_items' = << >>
                 /\ message_output' = ""
                 /\ turn' = turn + 1
                 /\ arrived' = Append(arrived, UserMessage(line))
                 /\ printed' = << Line("", "") >>
                                   \o IfDebug(debug, << Line("=== Run starting ===", "") >>)
                 /\ pc' = "streaming"
    /\ UNCHANGED << config, conversation, nevents, event, environ0, debug >>
    /\ UNCHANGED toolVars

\* A run item as the stream delivers it.  `conv` says what to_input_item gives:
\* "missing" (the item has no such attribute), "empty" (a falsy value) or
\* "item" (an input item); `id` is the item's place in the session's stream.
RunItem(type, conv, text, id) == [type |-> type, conv |-> conv, text |-> text, id |-> id]

ItemTypes == {"tool_call_item", "tool_call_output_item", "message_output_item",
              "handoff_output_item"}

Events ==
    {[type |-> t, item |-> RunItem("", "missing", "", 0)] :
        t \in {"raw_response_event", "agent_updated_stream_event"}}
    \cup {[type |-> "run_item_stream_event", item |-> RunItem(t, c, "reply", 0)] :
            t \in ItemTypes, c \in {"missing", "empty", "item"}}

\* Recordable without the test `if input_item`
RecordableIfPresent(item) == item.conv # "missing"

\* Lines 189-191: whether the item is appended to the conversation
Recordable(item) == item.conv = "item"

\* item.to_input_item()
ToInputItem(item) == [role |-> "item", content |-> << item.type, item.id >>]

\* Lines 155-184: what the loop body prints for one event
EventLines(flag, e) ==
    IF e.type = "raw_response_event" THEN << >>
    ELSE IF e.type = "agent_updated_stream_event"
    THEN IfDebug(flag, << Line("Agent updated", "") >>)
    ELSE IF e.item.type = "tool_call_item" THEN << Line("tool call", "") >>
    ELSE IF e.item.type = "tool_call_output_item"
    THEN IfDebug(flag, << Line("Tool output", "") >>)
    ELSE IF e.item.type = "message_output_item"
    THEN IfDebug(flag, << Line("Message building", e.item.text) >>)
    ELSE IfDebug(flag, << Line("Other event type", e.item.type) >>)

\* StreamEvent with the reply captured inside the debug branch of line 181
StreamEventDebugCapture(events) ==
    /\ pc = "streaming"
    /\ nevents < MaxEvents
    /\ \E e \in events :
         /\ event' = e.type
         /\ printed' = EventLines(debug, e)
         /\ LET item == [e.item EXCEPT !.id = nevents + 1]
            IN  IF e.type = "run_item_stream_event"
                THEN /\ final_items' = Append(final_items, item)
                     /\ message_output' = IF item.type = "message_output_item" /\ debug
                                          THEN item.text ELSE message_output
                     /\ arrived' = IF Recordable(item)
                                   THEN Append(arrived, ToInputItem(item)) ELSE arrived
                ELSE UNCHANGED << final_items, message_output, arrived >>
    /\ nevents' = nevents + 1
    /\ UNCHANGED << pc, config, conversation, user_input, run_input, turn, nreads,
                    environ0, debug >>
    /\ UNCHANGED toolVars

\* Lines 153-184: one event of the stream is consumed.
StreamEvent(events) ==
    /\ pc = "streaming"
    /\ nevents < MaxEvents
    /\ \E e \in events :
         /\ event' = e.type
         /\ printed' = EventLines(debug, e)
         /\ LET item == [e.item EXCEPT !.id = nevents + 1]
            IN  IF e.type = "run_item_stream_event"
                THEN /\ final_items' = Append(final_items, item)
                     /\ message_output' = IF item.type = "message_output_item"
                                          THEN item.text ELSE message_output
                     /\ arrived' = IF Recordable(item)
                                   THEN Append(arrived, ToInputItem(item)) ELSE arrived
                ELSE UNCHANGED << final_items, message_output, arrived >>
    /\ nevents' = nevents + 1
    /\ UNCHANGED << pc, config, conversation, user_input, run_input, turn, nreads,
                    environ0, debug >>
    /\ UNCHANGED toolVars

RECURSIVE InputItems(_)
\* Lines 188-192: the input items of the items collected, in order
InputItems(items) ==
    IF items = << >> THEN << >>
    ELSE (IF Recordable(Head(items)) THEN << ToInputItem(Head(items)) >> ELSE << >>)
            \o InputItems(Tail(items))

\* Lines 194-198: the final reply of the turn is displayed
FinalLines(flag, reply) ==
    << Line("reply", reply) >> \o IfDebug(flag, << Line("=== Run complete ===", "") >>)

\* EndStream with the history reset to the items of the turn
EndStreamReplacing ==
    /\ pc = "streaming"
    /\ \A i \in Slots : inv[i].pc = "idle"
    /\ conversation' = InputItems(final_items)
    /\ printed' = FinalLines(debug, message_output)
    /\ pc' = "prompt"
    /\ UNCHANGED << config, user_input, run_input, final_items, message_output, turn,
                    nevents, event, nreads, arrived, environ0, debug >>
    /\ UNCHANGED toolVars

\* Lines 186-198: the stream is exhausted; the history is updated.
EndStream ==
    /\ pc = "streaming"
    /\ \A i \in Slots : inv[i].pc = "idle"
    /\ conversation' = conversation \o InputItems(final_items)
    /\ printed' = FinalLines(debug, message_output)
    /\ pc' = "prompt"
    /\ UNCHANGED << config, user_input, run_input, final_items, message_output, turn,
                    nevents, event, nreads, arrived, environ0, debug >>
    /\ UNCHANGED toolVars

(***************************************************************************)
(* Specifications                                                          *)
(***************************************************************************)
Environments == {e \in [EnvVars -> {None, Some(""), Some("v"), Some("k1"), Some("k2")}] :
                    \A var \in EnvVars : e[var] \in EnvValues(var)}

\* The environments in which at most one variable is unset, empty or unusual
NearlySet == {e \in Environments :
                Cardinality({var \in EnvVars : e[var] \notin {Some("v"), Some("k1")}}) <= 1}

\* Spec: the whole program, from the import of src/example.py on, with two
\* tool calls in flight at most and few inputs.
FewLines == { Exit, << "h", "i" >> }

FewEvents == {e \in Events : /\ e.type = "run_item_stream_event"
                             /\ e.item.type = "message_output_item"
                             /\ e.item.conv = "item"}

ManyEvents == {e \in Events :
                 \/ e.type # "run_item_stream_event"
                 \/ e.item.type = "message_output_item" /\ e.item.conv \in {"item", "empty"}
                 \/ e.item.type = "tool_call_item" /\ e.item.conv = "item"
                 \/ e.item.type = "handoff_output_item" /\ e.item.conv \in {"item", "missing"}}

FewCalls == {c \in Calls :
               \/ c.tool = "geocode" /\ c.args.city_name = "Paris"
               \/ /\ c.tool = "web_search"
                  /\ c.args.num_results = Some(2)
                  /\ c.args.include_news = Some(FALSE)
                  /\ c.args.time_period = None}

FewResponses ==
    [t \in Tools |-> {NetworkFailure}
        \cup {Reply(200, b) : b \in {x \in Bodies(t) :
                 t # "web_fetch" /\ x.json = "dict" /\ x.n = 3 /\ x.m = 0
                 /\ x.items_ok /\ x.status = None}}]

FewChanges == { << "SERPAPI_API_KEY", None >>, << "SERPAPI_API_KEY", Some("k2") >>,
                << "MODEL_NAME", None >> }

AllResponses == [t \in Tools |-> Responses(t)]

Init ==
    /\ environ \in NearlySet
    /\ today \in {<<2026, 11, 2>>}
    /\ inv = [i \in Slots |-> Idle]
    /\ pc = "startup"
    /\ config = NoConfig
    /\ conversation = << >>
    /\ user_input = << >>
    /\ run_input = NoInput
    /\ final_items = << >>
    /\ message_output = ""
    /\ turn = 0
    /\ nevents = 0
    /\ event = ""
    /\ nreads = 0
    /\ arrived = << >>
    /\ environ0 = environ
    /\ nenv = 0
    /\ ncalls = 0
    /\ debug \in BOOLEAN
    /\ printed = << >>

Next ==
    \/ Startup
    \/ ReadLine(FewLines)
    \/ StreamEvent(FewEvents)
    \/ EndStream
    \/ \E i \in Slots : Call(i, FewCalls)
    \/ \E i \in Slots : Respond(i, FewResponses)
    \/ \E i \in Slots : Return(i)
    \/ EnvChange(FewChanges)

Spec == Init /\ [][Next]_vars

\* SpecTools: one tool call at a time during the first run of a session, with
\* every argument and every outcome of the request.
InitTools ==
    /\ environ \in {e \in Environments :
                       /\ e["OPENAI_API_BASE_URL"] = Some("v")
                       /\ e["OPENAI_API_KEY"] = Some("v")
                       /\ e["MODEL_NAME"] = Some("v")}
    /\ today \in Todays
    /\ inv = [i \in Slots |-> Idle]
    /\ pc = "streaming"
    /\ config = ReadConfig(environ)
    /\ conversation = << >>
    /\ user_input = << "h", "i" >>
    /\ run_input = BareInput(<< "h", "i" >>)
    /\ final_items = << >>
    /\ message_output = ""
    /\ turn = 1
    /\ nevents = 0
    /\ event = ""
    /\ nreads = 1
    /\ arrived = << UserMessage(<< "h", "i" >>) >>
    /\ environ0 = environ
    /\ nenv = 0
    /\ ncalls = 0
    /\ debug = FALSE
    /\ printed = << Line("", "") >>

NextTools ==
    \/ Call(1, Calls)
    \/ Respond(1, AllResponses)
    \/ Return(1)
    \/ EnvChange(Changes({"SERPAPI_API_KEY"}))

SpecTools == InitTools /\ [][NextTools]_vars

\* SpecParams: one call at a time of the four SerpAPI tools, with every value
\* of the arguments that the request parameters are built from.
ParamResponses ==
    [t \in Tools |-> {r \in Responses(t) :
        \/ r.net = "error"
        \/ t # "web_fetch" /\ r.status_code = 404 /\ r.body.json = "null"
        \/ t # "web_fetch" /\ r.status_code = 200 /\ r.body.json = "dict"
              /\ r.body.n = 3 /\ r.body.m = 0 /\ r.body.items_ok /\ r.body.status = None}]

InitParams == InitTools /\ today = <<2026, 11, 2>>

NextParams ==
    \/ Call(1, ParamCalls)
    \/ Respond(1, ParamResponses)
    \/ Return(1)
    \/ EnvChange(Changes({"SERPAPI_API_KEY"}))

SpecParams == InitParams /\ [][NextParams]_vars

\* SpecChat: the chat loop with every line and every event, and no tool call.
InitChat ==
    /\ Init
    /\ environ = [var \in EnvVars |-> IF var = "SERPAPI_API_KEY" THEN Some("k1")
                                      ELSE Some("v")]

NextChat ==
    \/ Startup
    \/ ReadLine(Lines)
    \/ StreamEvent(ManyEvents)
    \/ EndStream

SpecChat == InitChat /\ [][NextChat]_vars


(***************************************************************************)
(* Properties                                                              *)
(***************************************************************************)
SerpTools == {"web_search", "youtube_search", "scholar_search", "google_flights_search"}
StatusTools == SerpTools \cup {"web_fetch"}
GeoTools == {"geocode", "get_weather"}

Done(i) == inv[i].pc = "done"

HasStatus(result) ==
    /\ result.isdict
    /\ "status" \in result.keys
    /\ result.status \in {Some("success"), Some("error")}

\* C1 as stated: every tool, for every input and every outcome of the HTTP
\* call, returns a dictionary whose 'status' is 'success' or 'error'.
C1_EveryToolReturnsStatus ==
    \A i \in Slots : Done(i) => HasStatus(inv[i].result)

\* C1, amended: web_search, web_fetch, youtube_search, scholar_search and
\* google_flights_search return a dictionary whose 'status' is 'success' or
\* 'error' for every input and outcome; geocode and get_weather set no status:
\* when the request fails (network failure, 4xx/5xx, unparsable body) they
\* return a dictionary holding 'error' alone.
C1_StatusToolsReturnStatus ==
    \A i \in Slots : Done(i) =>
        /\ inv[i].tool \in StatusTools => HasStatus(inv[i].result)
        /\ ( /\ inv[i].tool \in GeoTools
             /\ \/ inv[i].resp[1].net = "error"
                \/ inv[i].resp[1].status_code >= 400
                \/ inv[i].resp[1].body.json = "invalid" )
           => inv[i].result.keys = {"error"} /\ inv[i].result.status = None

C1_Witness ==
    \E i \in Slots :
        /\ Done(i)
        /\ inv[i].tool = "web_search"
        /\ inv[i].resp # None
        /\ inv[i].resp[1].net = "ok"
        /\ inv[i].resp[1].status_code = 200
        /\ inv[i].resp[1].body.json = "invalid"
        /\ inv[i].result.status = Some("error")

\* A failed request as C2 words it: a network failure, a status other than
\* 200, or a body that does not parse as JSON
FailedRequest(tool, r) ==
    \/ r.net = "error"
    \/ r.status_code # 200
    \/ tool # "web_fetch" /\ r.body.json = "invalid"

\* C2 as stated: no tool invocation raises, and for every tool a network
\* failure, a non-200 status or a JSON parse failure ends the invocation with
\* a dictionary that carries an error string.
C2_FailureReturnsError ==
    \A i \in Slots : Done(i) =>
        /\ inv[i].result.raised = None
        /\ (inv[i].resp # None /\ FailedRequest(inv[i].tool, inv[i].resp[1]))
           => inv[i].result.isdict /\ inv[i].result.error # None

\* The same with the HTTP statuses the tool itself treats as failures: 4xx and
\* 5xx for geocode and get_weather, every status but 200 for the others
FailedRequestOf(tool, r) ==
    \/ r.net = "error"
    \/ IF tool \in GeoTools THEN r.status_code >= 400 /\ r.status_code < 600
       ELSE r.status_code # 200
    \/ tool # "web_fetch" /\ r.body.json = "invalid"

\* C2, amended: no tool invocation raises, and a network failure, an HTTP
\* error status (4xx/5xx for geocode and get_weather, any status other than
\* 200 for the other five tools) or a JSON parse failure ends the invocation
\* with a dictionary that carries an error string.
C2_FailureOfToolReturnsError ==
    \A i \in Slots : Done(i) =>
        /\ inv[i].result.raised = None
        /\ (inv[i].resp # None /\ FailedRequestOf(inv[i].tool, inv[i].resp[1]))
           => inv[i].result.isdict /\ inv[i].result.error # None

C2_Witness ==
    \E i \in Slots :
        /\ Done(i)
        /\ inv[i].tool = "geocode"
        /\ inv[i].resp = Some(NetworkFailure)
        /\ inv[i].result.error = Some("Other error occurred")

\* A date written YYYY-MM-DD: four digits, two digits, two digits, and a day
\* of the calendar
IsIsoDate(s) ==
    /\ Len(s) = 10
    /\ \A k \in {1, 2, 3, 4, 6, 7, 9, 10} : s[k] \in Digits
    /\ s[5] = "-" /\ s[8] = "-"
    /\ LET y == 1000 * DigitVal(s[1]) + 100 * DigitVal(s[2]) + 10 * DigitVal(s[3])
                   + DigitVal(s[4])
           m == 10 * DigitVal(s[6]) + DigitVal(s[7])
           d == 10 * DigitVal(s[9]) + DigitVal(s[10])
       IN  y >= 1 /\ m \in 1..12 /\ d >= 1 /\ d <= DaysInMonth(y, m)

IsoDateOf(s) ==
    << 1000 * DigitVal(s[1]) + 100 * DigitVal(s[2]) + 10 * DigitVal(s[3]) + DigitVal(s[4]),
       10 * DigitVal(s[6]) + DigitVal(s[7]),
       10 * DigitVal(s[9]) + DigitVal(s[10]) >>

BadFlightDates(args, day) ==
    \/ ~IsIsoDate(args.departure_date)
    \/ TruthyChars(args.return_date) /\ ~IsIsoDate(args.return_date[1])
    \/ DateLess(IsoDateOf(args.departure_date), day)

\* C3: in google_flights_search, when departure_date or a non-empty
\* return_date is not a valid YYYY-MM-DD date, or departure_date is before the
\* current day, the call returns status 'error' and issues no HTTP request.
C3_BadDatesRejectedBeforeRequest ==
    \A i \in Slots :
        ( /\ inv[i].pc # "idle"
          /\ inv[i].tool = "google_flights_search"
          /\ BadFlightDates(inv[i].args, today) )
        => /\ inv[i].pc = "done"
           /\ inv[i].gets = 0
           /\ inv[i].result.status = Some("error")

\* C4: what a tool returns never exceeds the documented caps: at most 100
\* organic_results, news and videos, at most 20 scholar organic_results, at
\* most 100 links, and never more than max(num_results, 0) entries in a list
\* that num_results drives.
C4_ResultCapsHold ==
    \A i \in Slots : (Done(i) /\ inv[i].result.status = Some("success")) =>
        LET lists == inv[i].result.lists
            asked == IF inv[i].tool = "web_search"
                     THEN (IF IsNone(inv[i].args.num_results) THEN DefaultNumResults
                           ELSE inv[i].args.num_results[1])
                     ELSE inv[i].args.num_results
        IN  CASE inv[i].tool = "web_search" ->
                    /\ Len(lists["organic_results"]) <= Min(SearchNumCap, Max(asked, 0))
                    /\ Len(lists["news"]) <= Min(SearchNumCap, Max(asked, 0))
              [] inv[i].tool = "youtube_search" ->
                    Len(lists["videos"]) <= Min(SearchNumCap, Max(asked, 0))
              [] inv[i].tool = "scholar_search" ->
                    Len(lists["organic_results"]) <= Min(ScholarNumCap, Max(asked, 0))
              [] inv[i].tool = "web_fetch" -> Len(lists["links"]) <= MaxLinks
              [] OTHER -> TRUE

NothingStarted ==
    /\ pc \in {"startup", "config_error"}
    /\ nreads = 0
    /\ turn = 0
    /\ ncalls = 0
    /\ \A i \in Slots : inv[i].pc = "idle"

\* C5 as stated: if any one of the four configuration variables is absent at
\* startup, a configuration error is raised before the chat loop reads any
\* input, starts any run or issues any HTTP request.
C5_AnyAbsentVariableIsConfigError ==
    (\E var \in EnvVars : environ0[var] = None) => NothingStarted

\* C5, amended: if OPENAI_API_KEY is absent or empty at startup, a
\* configuration error is raised before the chat loop reads any input, starts
\* any run or issues any HTTP request; with OPENAI_API_KEY set no
\* configuration error is raised, whichever of the base URL, the model name
\* and the search-provider key is absent.
C5_MissingApiKeyIsConfigError ==
    /\ ~TruthyStr(environ0["OPENAI_API_KEY"]) => NothingStarted
    /\ TruthyStr(environ0["OPENAI_API_KEY"]) => pc # "config_error"

C5_Witness ==
    pc = "config_error" /\ environ0["OPENAI_API_KEY"] \in {None, Some("")}

\* C6 as stated: the search-provider key is read once at startup, so the
\* outcome of every tool invocation is the one the environment of startup
\* gives, whatever the environment has become.
C6_ToolsUseStartupEnvironment ==
    \A i \in Slots : Done(i) =>
        LET atStartup == ToolCall(inv[i].tool, inv[i].args, environ0, today)
        IN  /\ atStartup.returned <=> inv[i].gets = 0
            /\ atStartup.returned => inv[i].result = atStartup.result

\* C6, amended: the base URL, the API key and the model name are read once at
\* startup and a later change of the environment does not change the
\* configuration; the search-provider key is read by each SerpAPI tool at each
\* call, so the call returns the missing-key error exactly when the key is
\* absent or empty in the environment of that moment.
C6_KeyReadAtEachCall ==
    [][ /\ pc # "startup" => config = ReadConfig(environ0) /\ config' = config
        /\ \A i \in Slots :
             (inv[i].pc = "idle" /\ inv'[i].pc # "idle" /\ inv'[i].tool \in SerpTools)
             => /\ inv'[i].key = Some(environ["SERPAPI_API_KEY"])
                /\ ~TruthyStr(environ["SERPAPI_API_KEY"])
                     <=> (inv'[i].pc = "done" /\ inv'[i].gets = 0
                          /\ inv'[i].result = MissingKey) ]_vars

C6_Witness ==
    \E i \in Slots :
        /\ Done(i)
        /\ inv[i].tool \in SerpTools
        /\ inv[i].result = MissingKey
        /\ TruthyStr(environ0["SERPAPI_API_KEY"])
        /\ config.MODEL_NAME = "v"

\* The list a run input stands for
InputList(input) == IF input.bare THEN << UserMessage(input.text) >> ELSE input.list

IsPrefix(a, b) == Len(a) <= Len(b) /\ SubSeq(b, 1, Len(a)) = a

\* C7: after a turn the history holds the turn's user message followed by the
\* items of its run, so the input of the next turn holds every earlier user
\* message and run item in arrival order, followed by the new user message.
C7_HistoryHoldsTurnsInOrder ==
    /\ pc = "prompt" => conversation = arrived
    /\ pc = "streaming" => IsPrefix(InputList(run_input), arrived)

\* "exit" in every mix of capitals and small letters
ExitSpellings ==
    {<< a, b, c, d >> : a \in {"e", "E"}, b \in {"x", "X"}, c \in {"i", "I"}, d \in {"t", "T"}}

\* C8: a line equal to 'exit' whatever its capitals ends the loop at once (no
\* run, no change of the history, no further line read); every other line
\* starts exactly one run, after which the loop is back at the prompt.
C8_SentinelEndsLoop ==
    [][ /\ nreads' # nreads =>
             IF user_input' \in ExitSpellings
             THEN /\ pc' = "exited"
                  /\ turn' = turn
                  /\ conversation' = conversation
             ELSE /\ pc' = "streaming"
                  /\ turn' = turn + 1
        /\ pc = "exited" => nreads' = nreads /\ turn' = turn
        /\ (pc = "streaming" /\ pc' # "streaming") => pc' = "prompt" ]_vars

C8_Witness ==
    /\ pc = "exited"
    /\ user_input = << "E", "X", "I", "T" >>
    /\ \E k \in 1..Len(arrived) : arrived[k] = UserMessage(<< " ", "e", "x", "i", "t" >>)

\* A failed GET as C9 words it: a network error or a status other than 200
FailedGet(r) == r.net = "error" \/ r.status_code # 200

\* C9 as stated: a tool invocation issues at most one GET, and after a failed
\* GET (network error or non-200 status) it issues no other: the error is
\* returned to the caller.
C9_FailedGetReturnsError ==
    \A i \in Slots : inv[i].pc # "idle" =>
        /\ inv[i].gets <= 1
        /\ (Done(i) /\ inv[i].resp # None /\ FailedGet(inv[i].resp[1]))
              => inv[i].gets = 1 /\ inv[i].result.error # None

\* The same with the statuses the tool itself treats as failures
FailedGetOf(tool, r) ==
    \/ r.net = "error"
    \/ IF tool \in GeoTools THEN r.status_code >= 400 /\ r.status_code < 600
       ELSE r.status_code # 200

\* C9, amended: a tool invocation issues at most one GET and none after a GET
\* that ended, whatever its outcome; after a network error or an HTTP error
\* status (4xx/5xx for geocode and get_weather, any status other than 200 for
\* the other five tools) the error is returned to the caller with no retry.
C9_AtMostOneGet ==
    \A i \in Slots : inv[i].pc # "idle" =>
        /\ inv[i].gets <= 1
        /\ inv[i].pc = "waiting" => inv[i].gets = 1 /\ inv[i].resp = None
        /\ (Done(i) /\ inv[i].resp # None) =>
              /\ inv[i].gets = 1
              /\ FailedGetOf(inv[i].tool, inv[i].resp[1]) => inv[i].result.error # None
        /\ (Done(i) /\ inv[i].resp = None) => inv[i].gets = 0

C9_Witness ==
    \E i \in Slots :
        /\ Done(i)
        /\ inv[i].tool = "youtube_search"
        /\ inv[i].resp = Some(NetworkFailure)
        /\ inv[i].gets = 1
        /\ inv[i].result.error = Some("Network error occurred")

\* What a call read and received
Inputs(frame) == << frame.tool, frame.args, frame.key, frame.day, frame.resp >>

DocTimePeriods == {None, Some("past_day"), Some("past_week"), Some("past_month"),
                   Some("past_year")}
DocYoutubeSorts == {"relevance", "upload_date", "view_count", "rating"}
DocUploadDates == {None, Some("last_hour"), Some("today"), Some("this_week"),
                   Some("this_month"), Some("this_year")}
DocDurations == {None, Some("short"), Some("medium"), Some("long")}
DocScholarSorts == {"relevance", "date"}
DocPublicationDates == {None, Some("since_2023"), Some("since_2020"), Some("since_2017"),
                        Some("since_2014")}
DocStops == {None, Some("any"), Some("nonstop"), Some("1stop"), Some("2stops")}
DocFlightClasses == {"economy", "premium_economy", "business", "first"}

\* The codes 'sp' is made of
SortCodes == {"CAI%253D", "CAM%253D", "CAE%253D"}
UploadDateCodes == {"EgIIAQ%253D%253D", "EgQIAhAB", "EgQIAxAB", "EgQIBBAB", "EgQIBRAB"}
DurationCodes == {"EgQQARgB", "EgQQARgC", "EgQQARgD"}

CodesOf(sp) == IF IsNone(sp) THEN {} ELSE {sp[1][k] : k \in 1..Len(sp[1])}

\* Whether the call has an enumerated argument outside its documented set
Undocumented(tool, args) ==
    CASE tool = "web_search" -> args.time_period \notin DocTimePeriods
      [] tool = "youtube_search" ->
            \/ args.sort_by \notin DocYoutubeSorts
            \/ args.upload_date \notin DocUploadDates
            \/ args.duration \notin DocDurations
      [] tool = "scholar_search" ->
            \/ args.sort_by \notin DocScholarSorts
            \/ args.publication_date \notin DocPublicationDates
      [] tool = "google_flights_search" ->
            \/ args.stops \notin DocStops
            \/ args.flight_class \notin DocFlightClasses
      [] OTHER -> FALSE

\* The request carries nothing for an argument outside its documented set
OmitsUndocumented(tool, args, params) ==
    CASE tool = "web_search" -> params.tbs = None
      [] tool = "youtube_search" ->
            /\ args.sort_by \notin DocYoutubeSorts => CodesOf(params.sp) \cap SortCodes = {}
            /\ args.upload_date \notin DocUploadDates
                  => CodesOf(params.sp) \cap UploadDateCodes = {}
            /\ args.duration \notin DocDurations
                  => CodesOf(params.sp) \cap DurationCodes = {}
      [] tool = "scholar_search" ->
            /\ args.sort_by \notin DocScholarSorts => params.as_sdt = None
            /\ args.publication_date \notin DocPublicationDates => params.as_ylo = None
      [] tool = "google_flights_search" ->
            /\ args.stops \notin DocStops => params.max_stops = None
            /\ args.flight_class \notin DocFlightClasses => params.flight_class = None

\* The same call with documented values in place of the others
Documented(tool, args) ==
    CASE tool = "web_search" -> [args EXCEPT !.time_period = Some("past_day")]
      [] tool = "youtube_search" ->
            [args EXCEPT !.sort_by = "relevance", !.upload_date = None, !.duration = None]
      [] tool = "scholar_search" ->
            [args EXCEPT !.sort_by = "relevance", !.publication_date = None]
      [] tool = "google_flights_search" ->
            [args EXCEPT !.stops = None, !.flight_class = "economy"]

\* C11: a call of youtube_search, scholar_search, web_search or
\* google_flights_search with a sort order, filter, time period, stops or
\* flight class outside the documented set is not rejected: with a key (and
\* valid dates) it issues its request, the request carries nothing for that
\* argument, and the result is the one the HTTP response gives to a call with
\* documented values.
C11_UndocumentedValuesAreOmitted ==
    \A i \in Slots :
        (inv[i].pc # "idle" /\ Undocumented(inv[i].tool, inv[i].args)) =>
            /\ TruthyStr(inv[i].key[1]) => inv[i].gets = 1 /\ inv[i].params # None
            /\ inv[i].params # None
                  => OmitsUndocumented(inv[i].tool, inv[i].args, inv[i].params[1])
            /\ (Done(i) /\ inv[i].resp # None) =>
                  /\ inv[i].result.status \in {Some("success"), Some("error")}
                  /\ inv[i].result
                        = ToolReply(inv[i].tool, Documented(inv[i].tool, inv[i].args),
                                    inv[i].resp[1])

C11_Witness ==
    \E i \in Slots :
        /\ Done(i)
        /\ inv[i].tool = "youtube_search"
        /\ inv[i].args.sort_by = "newest"
        /\ inv[i].args.upload_date = Some("today")
        /\ inv[i].args.duration = Some("epic")
        /\ inv[i].params # None
        /\ inv[i].params[1].sp = Some(<< "EgQIAhAB" >>)
        /\ inv[i].result.status = Some("success")

\* The code of a documented time period
TimeCode(period) ==
    CASE period = "past_day" -> "d"
      [] period = "past_week" -> "w"
      [] period = "past_month" -> "m"
      [] period = "past_year" -> "y"

NamedTimePeriods == {"past_day", "past_week", "past_month", "past_year"}

\* C12 as stated: in web_search a null time_period means no time filter: the
\* request carries 'tbs' only when time_period is one of past_day, past_week,
\* past_month, past_year, and then with the code qdr:d, qdr:w, qdr:m, qdr:y.
C12_NullTimePeriodMeansNoFilter ==
    \A i \in Slots :
        (inv[i].pc # "idle" /\ inv[i].tool = "web_search" /\ inv[i].params # None) =>
            LET period == inv[i].args.time_period
                tbs == inv[i].params[1].tbs
            IN  IF period # None /\ period[1] \in NamedTimePeriods
                THEN tbs = Some(<< "qdr", TimeCode(period[1]) >>)
                ELSE tbs = None

(***************************************************************************)
(* Properties of google_flights_search's validation                        *)
(***************************************************************************)
Flights(i) == inv[i].pc # "idle" /\ inv[i].tool = "google_flights_search"

HasKey(i) == inv[i].key # None /\ TruthyStr(inv[i].key[1])

Rejected(i) == Done(i) /\ inv[i].gets = 0 /\ inv[i].result.status = Some("error")

\* C13: in google_flights_search a well-formed return_date earlier than the
\* departure_date is rejected with status 'error' before any request; a
\* return_date equal to the departure_date is accepted: with a key and a
\* departure that is not past, the call goes on to its request.
C13_ReturnBeforeDepartureRejected ==
    \A i \in Slots :
        ( /\ Flights(i)
          /\ IsIsoDate(inv[i].args.departure_date)
          /\ inv[i].args.return_date # None
          /\ IsIsoDate(inv[i].args.return_date[1]) )
        => LET dep == IsoDateOf(inv[i].args.departure_date)
               ret == IsoDateOf(inv[i].args.return_date[1])
           IN  /\ DateLess(ret, dep) => Rejected(i)
               /\ (ret = dep /\ HasKey(i) /\ ~DateLess(dep, today))
                     => inv[i].gets = 1 /\ inv[i].params # None

C13_Witness ==
    \E i \in Slots :
        /\ Flights(i)
        /\ inv[i].pc = "waiting"
        /\ inv[i].args.departure_date = DateFuture
        /\ inv[i].args.return_date = Some(DateFuture)
        /\ inv[i].params[1].return_date = Some(DateFuture)

\* C14: in google_flights_search a departure_date equal to the current day is
\* not past: with a key and no earlier return_date the call passes validation
\* and issues its request; a date is rejected as past only when it is strictly
\* before the current day.
C14_TodayIsNotPast ==
    \A i \in Slots :
        (Flights(i) /\ IsIsoDate(inv[i].args.departure_date)) =>
            LET dep == IsoDateOf(inv[i].args.departure_date)
                ret == inv[i].args.return_date
            IN  /\ ( /\ dep = today
                     /\ HasKey(i)
                     /\ \/ ~TruthyChars(ret)
                        \/ IsIsoDate(ret[1]) /\ ~DateLess(IsoDateOf(ret[1]), dep) )
                   => inv[i].gets = 1 /\ inv[i].params # None
                /\ (Done(i) /\ inv[i].result.error = Some("Departure date is in the past."))
                   => DateLess(dep, today) /\ inv[i].gets = 0

C14_Witness ==
    \E i \in Slots :
        /\ Flights(i)
        /\ inv[i].pc = "waiting"
        /\ today = <<2026, 11, 2>>
        /\ inv[i].args.departure_date = DateToday
        /\ inv[i].gets = 1

\* C15: when the search-provider key is absent or empty at the time of the
\* call, web_search, youtube_search, scholar_search and google_flights_search
\* return status 'error' naming the missing key and issue no request; in
\* google_flights_search also when a date is malformed or past.
C15_MissingKeyComesFirst ==
    \A i \in Slots :
        (inv[i].pc # "idle" /\ inv[i].tool \in SerpTools) =>
            /\ inv[i].key # None
            /\ ~TruthyStr(inv[i].key[1]) =>
                  /\ Done(i)
                  /\ inv[i].gets = 0
                  /\ inv[i].params = None
                  /\ inv[i].result.status = Some("error")
                  /\ inv[i].result.error
                        = Some("SERPAPI_API_KEY not found in environment variables.")

C15_Witness ==
    \E i \in Slots :
        /\ Flights(i)
        /\ Done(i)
        /\ inv[i].key = Some(Some(""))
        /\ inv[i].args.departure_date = DatePast
        /\ inv[i].result = MissingKey

(***************************************************************************)
(* Properties of youtube_search's 'sp'                                     *)
(***************************************************************************)
Youtube(i) == inv[i].pc # "idle" /\ inv[i].tool = "youtube_search" /\ inv[i].params # None

SpCodes(i) == IF IsNone(inv[i].params[1].sp) THEN << >> ELSE inv[i].params[1].sp[1]

\* 1 for a sort code, 2 for an upload-date code, 3 for a duration code
Rank(code) ==
    CASE code \in SortCodes -> 1
      [] code \in UploadDateCodes -> 2
      [] code \in DurationCodes -> 3
      [] OTHER -> 0

InFixedOrder(codes) ==
    /\ \A k \in 1..Len(codes) : Rank(codes[k]) # 0
    /\ \A k, l \in 1..Len(codes) : k < l => Rank(codes[k]) < Rank(codes[l])

\* C16 as stated: 'sp' is the comma-joined sequence of one code for each active
\* option, in the order sort (active when sort_by is not 'relevance'),
\* upload-date filter, duration filter (active when given), and it is absent
\* exactly when sort_by is 'relevance' and neither filter is given.
C16_SpJoinsGivenOptions ==
    \A i \in Slots : Youtube(i) =>
        LET args == inv[i].args
            given == (IF args.sort_by # "relevance" THEN 1 ELSE 0)
                       + (IF args.upload_date # None THEN 1 ELSE 0)
                       + (IF args.duration # None THEN 1 ELSE 0)
        IN  /\ Len(SpCodes(i)) = given
            /\ InFixedOrder(SpCodes(i))
            /\ inv[i].params[1].sp = None <=> given = 0

SortCode(sort_by) ==
    CASE sort_by = "upload_date" -> << "CAI%253D" >>
      [] sort_by = "view_count" -> << "CAM%253D" >>
      [] sort_by = "rating" -> << "CAE%253D" >>
      [] OTHER -> << >>

UploadDateCode(upload_date) ==
    CASE upload_date = Some("last_hour") -> << "EgIIAQ%253D%253D" >>
      [] upload_date = Some("today") -> << "EgQIAhAB" >>
      [] upload_date = Some("this_week") -> << "EgQIAxAB" >>
      [] upload_date = Some("this_month") -> << "EgQIBBAB" >>
      [] upload_date = Some("this_year") -> << "EgQIBRAB" >>
      [] OTHER -> << >>

DurationCode(duration) ==
    CASE duration = Some("short") -> << "EgQQARgB" >>
      [] duration = Some("medium") -> << "EgQQARgC" >>
      [] duration = Some("long") -> << "EgQQARgD" >>
      [] OTHER -> << >>

\* C16, amended: 'sp' is the comma-joined sequence of one code for each active
\* option, in the order sort, upload-date filter, duration filter, where the
\* sort is active when sort_by is upload_date, view_count or rating and a
\* filter is active when its value is one of the documented ones; 'sp' is
\* absent exactly when no option is active, which for documented arguments is
\* when sort_by is 'relevance' and neither filter is given.
C16_SpJoinsActiveCodes ==
    \A i \in Slots : Youtube(i) =>
        LET args == inv[i].args
            codes == SortCode(args.sort_by) \o UploadDateCode(args.upload_date)
                        \o DurationCode(args.duration)
        IN  /\ SpCodes(i) = codes
            /\ inv[i].params[1].sp = None <=> codes = << >>
            /\ ( /\ args.sort_by \in DocYoutubeSorts
                 /\ args.upload_date \in DocUploadDates
                 /\ args.duration \in DocDurations )
               => (inv[i].params[1].sp = None
                     <=> ( /\ args.sort_by = "relevance"
                           /\ args.upload_date = None
                           /\ args.duration = None ))

C16_Witness ==
    \E i \in Slots :
        /\ Youtube(i)
        /\ inv[i].args.sort_by = "rating"
        /\ inv[i].args.upload_date = Some("this_week")
        /\ inv[i].args.duration = Some("long")
        /\ inv[i].params[1].sp = Some(<< "CAE%253D", "EgQIAxAB", "EgQQARgD" >>)

(***************************************************************************)
(* Properties of web_fetch's result                                        *)
(***************************************************************************)
\* The Content-Type values that contain 'text/html' in some mix of capitals
HtmlTypes == {Some(<< "t", "e", "x", "t", "/", "h", "t", "m", "l" >>),
              Some(<< "T", "e", "x", "t", "/", "H", "T", "M", "L", ";", "x" >>)}

\* C17: a successful web_fetch result holds exactly one of 'text_content' and
\* 'raw_content': 'text_content', with title, meta_tags and links, when
\* extract_text is true and the Content-Type contains 'text/html' whatever its
\* capitals, and 'raw_content' in every other case.
C17_TextOrRawContent ==
    \A i \in Slots :
        (Done(i) /\ inv[i].tool = "web_fetch" /\ inv[i].result.status = Some("success")) =>
            LET keys == inv[i].result.keys
                extracted == inv[i].args.extract_text
                                /\ inv[i].resp[1].body.ctype \in HtmlTypes
            IN  /\ ("text_content" \in keys) # ("raw_content" \in keys)
                /\ "text_content" \in keys <=> extracted
                /\ extracted => {"title", "meta_tags", "links"} \subseteq keys
                /\ ~extracted => keys \cap {"title", "meta_tags", "links"} = {}

C17_Witness ==
    \E i \in Slots :
        /\ Done(i)
        /\ inv[i].tool = "web_fetch"
        /\ inv[i].args.extract_text
        /\ inv[i].resp[1].net = "ok"
        /\ inv[i].resp[1].body.ctype
              = Some(<< "T", "e", "x", "t", "/", "H", "T", "M", "L", ";", "x" >>)
        /\ "text_content" \in inv[i].result.keys

(***************************************************************************)
(* Properties of the chat loop                                             *)
(***************************************************************************)
\* The input items of the run items that convert to a non-empty input item
Converted(items) ==
    LET kept == SelectSeq(items, LAMBDA item : item.conv = "item")
    IN  [k \in 1..Len(kept) |-> ToInputItem(kept[k])]

\* C18: on each turn the runtime receives the bare user string exactly when
\* the history is empty, and otherwise the history followed by the new user
\* message; a run without recordable item leaves the history as it was, so
\* that after such a first turn the next one is forwarded bare again.
C18_BareInputWhenHistoryEmpty ==
    [][ /\ turn' # turn =>
             /\ run_input'.bare <=> conversation = << >>
             /\ run_input'.bare => run_input'.text = user_input'
             /\ ~run_input'.bare
                   => run_input'.list = conversation \o << UserMessage(user_input') >>
        /\ (pc = "streaming" /\ pc' = "prompt" /\ Converted(final_items) = << >>)
             => conversation' = conversation ]_vars

C18_Witness ==
    /\ pc = "streaming"
    /\ turn = 2
    /\ run_input.bare
    /\ nevents >= 1
    /\ final_items = << >>

\* C19: the history only grows by appending: every step leaves the history it
\* had as a prefix of the history it has, and a line that ends the loop
\* leaves it unchanged.
C19_HistoryOnlyGrows ==
    [][ /\ IsPrefix(conversation, conversation')
        /\ pc' = "exited" => conversation' = conversation
        /\ pc' # "prompt" => conversation' = conversation ]_vars

C19_Witness ==
    /\ pc = "exited"
    /\ turn = 2
    /\ Len(conversation) >= 2
    /\ conversation[1].content[2] = 1
    /\ conversation[Len(conversation)].content[2] = nevents

\* C20: within a turn only run-item events are recorded: a raw-response or
\* agent-updated event changes neither the items collected nor the captured
\* reply, a run-item event appends its item, and the items appended to the
\* history after the turn are those run items of the turn that convert to a
\* non-empty input item, in the order of their events.
C20_OnlyRunItemsRecorded ==
    [][ /\ (nevents' # nevents /\ event' # "run_item_stream_event")
             => final_items' = final_items /\ message_output' = message_output
        /\ (nevents' # nevents /\ event' = "run_item_stream_event")
             => /\ Len(final_items') = Len(final_items) + 1
                /\ IsPrefix(final_items, final_items')
                /\ final_items'[Len(final_items')].id = nevents'
        /\ nevents' # nevents => conversation' = conversation
        /\ turn' # turn => final_items' = << >>
        /\ (pc = "streaming" /\ pc' = "prompt")
             => conversation' = conversation \o Converted(final_items) ]_vars

C20_Witness ==
    /\ pc = "prompt"
    /\ event = "agent_updated_stream_event"
    /\ Len(final_items) = 2
    /\ final_items[1].conv = "empty"
    /\ final_items[2].conv = "item"
    /\ Len(conversation) = 1
    /\ conversation[1] = ToInputItem(final_items[2])

(***************************************************************************)
(* C21: the debug flag                                                     *)
(***************************************************************************)
\* The texts that src/example.py prints under `if debug` (lines 123-124,
\* 146-147, 158-159, 177-178, 181-184 and 197-198)
DebugTexts == {"Debug mode enabled", "=== Run starting ===", "Agent updated",
               "Tool output", "Message building", "Other event type",
               "=== Run complete ==="}

\* The lines that are printed in both modes
Plain(lines) == SelectSeq(lines, LAMBDA l : l.text \notin DebugTexts)

\* The lines that are printed in debug mode only
Extra(lines) == SelectSeq(lines, LAMBDA l : l.text \in DebugTexts)

\* C21: the debug flag affects printing only.  Two sessions that read the
\* same lines and consume the same events differ in nothing but the debug
\* lines printed, because every step determines what is forwarded to the
\* runtime, what is collected, the reply captured, the history and the lines
\* printed in both modes from their values before the step and from the line
\* or event alone, whatever the flag is: the flag never changes, a session
\* with debug off prints no debug line, a line read forwards the bare string
\* or the history with the new message, an event appends its item and
\* captures the text of a message item, and the end of the stream extends
\* the history and displays the captured reply.
C21_DebugAffectsPrintingOnly ==
    [][ /\ debug' = debug
        /\ ~debug => Extra(printed') = << >>
        /\ turn' # turn =>
             /\ run_input' = IF conversation = << >> THEN BareInput(user_input')
                              ELSE ListInput(Append(conversation, UserMessage(user_input')))
             /\ conversation' = conversation
             /\ message_output' = ""
             /\ Plain(printed') = << Line("", "") >>
        /\ nevents' # nevents =>
             /\ run_input' = run_input
             /\ conversation' = conversation
             /\ IF event' = "run_item_stream_event"
                THEN LET item == final_items'[Len(final_items')]
                     IN  /\ final_items' = Append(final_items, item)
                         /\ message_output' = IF item.type = "message_output_item"
                                              THEN item.text ELSE message_output
                         /\ Plain(printed') = IF item.type = "tool_call_item"
                                              THEN << Line("tool call", "") >> ELSE << >>
                ELSE /\ final_items' = final_items
                     /\ message_output' = message_output
                     /\ Plain(printed') = << >>
        /\ (pc = "streaming" /\ pc' = "prompt") =>
             /\ run_input' = run_input
             /\ conversation' = conversation \o Converted(final_items)
             /\ Plain(printed') = << Line("reply", message_output) >> ]_vars

\* A second turn of a session with debug on has ended: the history was
\* forwarded, a message item was captured and displayed, and the debug line
\* of the end of the run was printed after the reply.
C21_Witness ==
    /\ debug
    /\ pc = "prompt"
    /\ turn = 2
    /\ ~run_input.bare
    /\ message_output = "reply"
    /\ printed = << Line("reply", "reply"), Line("=== Run complete ===", "") >>

\* The same turn of a session with debug off
C21_WitnessOff ==
    /\ ~debug
    /\ pc = "prompt"
    /\ turn = 2
    /\ ~run_input.bare
    /\ message_output = "reply"
    /\ printed = << Line("reply", "reply") >>

====
